---- MODULE Spec2Model ----
(***************************************************************************)
(* m4ssc0py: the backup session orchestrator of src/src/store.ts (the      *)
(* zustand store with its persist middleware) and src/src/App.tsx (the     *)
(* form handlers, startBackup and the three engine event listeners).       *)
(*                                                                         *)
(* The store is one record, `store`; every handler is one action that      *)
(* applies the store operations it calls, in the order it calls them.      *)
(* Every zustand set() writes partialize(state) to local storage, so each  *)
(* action that calls a setter also rewrites `storage`.                     *)
(***************************************************************************)
EXTENDS Integers, Sequences, FiniteSets, TLC

VARIABLES
    store,      \* the zustand state (store.ts:62-81)
    storage,    \* the record persisted under 'm4ssc0py-storage', or NoRecord
    invokes,    \* the backup_directory invocations made by this page, in order
    session,    \* history: "none" (nothing submitted since launch or reset), "open"
                \* (submitted, outcome not written yet) or "written"
    last,       \* history: the handler that ran last, and the screen it ran on
    edits,      \* number of form edits made (bounded by MaxEdits)
    events,     \* number of engine notifications delivered (bounded by MaxEvents)
    launches,   \* number of relaunches (bounded by MaxLaunches)
    drag,       \* FormScreen's isDragging and dropZone (App.tsx:122-123)
    listeners   \* the drag listeners of every FormScreen mounted so far

vars == <<store, storage, invokes, session, last, edits, events, launches, drag,
          listeners>>

(***************************************************************************)
(* Bounds of the model.                                                    *)
(***************************************************************************)
MaxEdits == 2
MaxEvents == 2
MaxSessions == 2
MaxLaunches == 1
MaxCalls == 3

(***************************************************************************)
(* Input domains.                                                          *)
(***************************************************************************)
Paths == {"/a", "/b"}
TargetInputs == Paths \cup {""}
Patterns == {"dist", "*.log"}
CollisionModes == {"overwrite", "skip", "rename"}
Screens == {"form", "progress", "complete"}

ProgressPayloads ==
    { [current_file |-> "/a/x.txt", copied_count |-> 1, skipped_count |-> 0, total_count |-> 4],
      [current_file |-> "/a/y.txt", copied_count |-> 3, skipped_count |-> 1, total_count |-> 10],
      [current_file |-> "",         copied_count |-> 0, skipped_count |-> 0, total_count |-> 0] }

\* more notifications, of runs over 4, 10 or 40 files
ProgressSamples ==
    { [current_file |-> "/a/z.txt", copied_count |-> c, skipped_count |-> k, total_count |-> t] :
        <<c, k, t>> \in { ckt \in (0..23) \X (0..1) \X {4, 10, 40} : ckt[1] + ckt[2] <= ckt[3] } }

\* notifications whose copied and skipped counts add up to more than the total
OvercountPayloads ==
    { [current_file |-> "/a/z.txt", copied_count |-> c, skipped_count |-> k, total_count |-> t] :
        <<c, k, t>> \in { ckt \in (0..6) \X (0..2) \X {0, 4} : ckt[1] + ckt[2] > ckt[3] } }

CompletePayloads ==
    { [success |-> TRUE,  copied_count |-> 4, skipped_count |-> 0, message |-> "Done"],
      [success |-> FALSE, copied_count |-> 1, skipped_count |-> 2, message |-> "Failed"] }

NoFile == "null"
ErrorPayloads ==
    { [message |-> "denied", file |-> "/a/x.txt"],
      [message |-> "disk full", file |-> NoFile] }

RejectErrors == {"engine unavailable"}

\* window.innerHeight, in pixels; the pointer's y is a whole pixel of the window
Heights == {20, 100}

NoRecord == [absent |-> TRUE]

(***************************************************************************)
(* Array helpers (Array.prototype.includes / filter / slice).              *)
(***************************************************************************)
Includes(list, x) == \E i \in 1..Len(list) : list[i] = x

Without(list, x) == SelectSeq(list, LAMBDA e : e # x)

Slice(list, n) == IF Len(list) <= n THEN list ELSE SubSeq(list, 1, n)

HistoryLimit == 10

(***************************************************************************)
(* store.ts: initialState and the store operations, as functions of the    *)
(* state record.                                                           *)
(***************************************************************************)
initialState ==
    [ currentScreen       |-> "form",
      sourcePaths         |-> <<>>,
      sourceHistory       |-> <<>>,
      targetPath          |-> "",
      targetHistory       |-> <<>>,
      blacklist           |-> <<"node_modules", "dist">>,
      respectGitignore    |-> FALSE,
      includeSourceDir    |-> TRUE,
      collisionMode       |-> "overwrite",
      progress            |-> 0,
      currentFile         |-> "",
      currentFileProgress |-> 0,
      copiedCount         |-> 0,
      skippedCount        |-> 0,
      totalCount          |-> 0,
      success             |-> FALSE,
      message             |-> "",
      errors              |-> <<>> ]

setScreen(s, screen) == [s EXCEPT !.currentScreen = screen]

\* A faulty add: the path is appended whether or not it is already there.
addSourcePathAgain(s, path) == [s EXCEPT !.sourcePaths = Append(@, path)]

addSourcePath(s, path) ==
    [s EXCEPT !.sourcePaths = IF Includes(@, path) THEN @ ELSE Append(@, path)]

removeSourcePath(s, path) == [s EXCEPT !.sourcePaths = Without(@, path)]

clearSourcePaths(s) == [s EXCEPT !.sourcePaths = <<>>]

\* A faulty history: the list is not cut to its first ten entries.
addToSourceHistoryUncut(s, path) ==
    [s EXCEPT !.sourceHistory = IF Includes(@, path) THEN @ ELSE <<path>> \o @]

addToSourceHistory(s, path) ==
    [s EXCEPT !.sourceHistory =
        IF Includes(@, path) THEN @ ELSE Slice(<<path>> \o @, HistoryLimit)]

setTargetPath(s, path) == [s EXCEPT !.targetPath = path]

\* A faulty history: a path that is already there is moved to the front.
addToTargetHistoryPromote(s, path) ==
    [s EXCEPT !.targetHistory = Slice(<<path>> \o Without(@, path), HistoryLimit)]

addToTargetHistory(s, path) ==
    [s EXCEPT !.targetHistory =
        IF Includes(@, path) THEN @ ELSE Slice(<<path>> \o @, HistoryLimit)]

addBlacklistItem(s, item) ==
    [s EXCEPT !.blacklist = IF Includes(@, item) THEN @ ELSE Append(@, item)]

removeBlacklistItem(s, item) == [s EXCEPT !.blacklist = Without(@, item)]

setRespectGitignore(s, value) == [s EXCEPT !.respectGitignore = value]
setIncludeSourceDir(s, value) == [s EXCEPT !.includeSourceDir = value]
setCollisionMode(s, mode) == [s EXCEPT !.collisionMode = mode]

setProgress(s, p) == [s EXCEPT !.progress = p]
setCurrentFile(s, file) == [s EXCEPT !.currentFile = file]
setCopiedCount(s, count) == [s EXCEPT !.copiedCount = count]
setSkippedCount(s, count) == [s EXCEPT !.skippedCount = count]
setTotalCount(s, count) == [s EXCEPT !.totalCount = count]

setSuccess(s, success) == [s EXCEPT !.success = success]
setMessage(s, message) == [s EXCEPT !.message = message]
\* A faulty log: the new entry replaces the log.
addErrorReplace(s, error) == [s EXCEPT !.errors = <<error>>]

addError(s, error) == [s EXCEPT !.errors = Append(@, error)]

\* A faulty reset: each reset forgets the oldest entry of the source history.
resetForgetOldest(s) ==
    [initialState EXCEPT
        !.sourceHistory    = IF s.sourceHistory = <<>> THEN <<>>
                             ELSE SubSeq(s.sourceHistory, 1, Len(s.sourceHistory) - 1),
        !.targetHistory    = s.targetHistory,
        !.blacklist        = s.blacklist,
        !.respectGitignore = s.respectGitignore,
        !.includeSourceDir = s.includeSourceDir,
        !.collisionMode    = s.collisionMode]

\* A faulty reset: the state is replaced by initialState, nothing re-threaded.
resetAll(s) == initialState

reset(s) ==
    [initialState EXCEPT
        !.sourceHistory    = s.sourceHistory,
        !.targetHistory    = s.targetHistory,
        !.blacklist        = s.blacklist,
        !.respectGitignore = s.respectGitignore,
        !.includeSourceDir = s.includeSourceDir,
        !.collisionMode    = s.collisionMode]

(***************************************************************************)
(* store.ts: the persist middleware.  partialize selects what is written;  *)
(* on launch the stored record is merged over initialState.                *)
(***************************************************************************)
\* A partialize that keeps the two history lists, the blacklist and the options only.
partializeDurable(s) ==
    [ sourceHistory    |-> s.sourceHistory,
      targetHistory    |-> s.targetHistory,
      blacklist        |-> s.blacklist,
      respectGitignore |-> s.respectGitignore,
      includeSourceDir |-> s.includeSourceDir,
      collisionMode    |-> s.collisionMode ]

partialize(s) ==
    [ sourcePaths      |-> s.sourcePaths,
      sourceHistory    |-> s.sourceHistory,
      targetPath       |-> s.targetPath,
      targetHistory    |-> s.targetHistory,
      blacklist        |-> s.blacklist,
      respectGitignore |-> s.respectGitignore,
      includeSourceDir |-> s.includeSourceDir,
      collisionMode    |-> s.collisionMode ]

hydrate(rec) ==
    IF rec = NoRecord THEN initialState
    ELSE [k \in DOMAIN initialState |->
            IF k \in DOMAIN rec THEN rec[k] ELSE initialState[k]]

\* What local storage can hold when the application is launched: nothing (first
\* launch), or a record an earlier run wrote (here: one written while its form
\* was filled in, after that run had already backed up to "/b" once).
ReturningRecord ==
    [ sourcePaths      |-> <<"/a">>,
      sourceHistory    |-> <<"/b", "/a">>,
      targetPath       |-> "/b",
      targetHistory    |-> <<"/b">>,
      blacklist        |-> <<"node_modules", "*.log">>,
      respectGitignore |-> TRUE,
      includeSourceDir |-> FALSE,
      collisionMode    |-> "skip" ]

\* The record an earlier run left after one finished session ("/a" to "/b")
\* and a reset, with the default blacklist and options.
FinishedRecord ==
    [ sourcePaths      |-> <<>>,
      sourceHistory    |-> <<"/a">>,
      targetPath       |-> "",
      targetHistory    |-> <<"/b">>,
      blacklist        |-> <<"node_modules", "dist">>,
      respectGitignore |-> FALSE,
      includeSourceDir |-> TRUE,
      collisionMode    |-> "overwrite" ]

\* useState(false) and useState<'source' | 'target' | null>(null)
NoZone == "null"
NoDrag == [isDragging |-> FALSE, dropZone |-> NoZone]

\* The listeners of FormScreen's effect (App.tsx:177-267), followed only
\* where a specification asks for it.  One effect per mount of FormScreen:
\* registered counts the listen() calls whose await has resumed (in the
\* order enter, over, leave, drop), released the unlisten functions the
\* cleanup has called.
DragListeners == 4

NewEffect == [mounted |-> TRUE, registered |-> 0, released |-> 0]

NotFollowed == [followed |-> FALSE, effects |-> <<>>]

FirstMount == [followed |-> TRUE, effects |-> <<NewEffect>>]

\* return () => { unlistenDragEnter?.(); ... }: only the variables already
\* assigned hold a function to call
Cleanup(e) == [e EXCEPT !.mounted = FALSE, !.released = e.registered]

\* {currentScreen === 'form' && <FormScreen />}: a render mounts FormScreen
\* when the screen becomes form and unmounts it when the screen leaves form
Rendered(l, screen) ==
    IF ~l.followed THEN l
    ELSE LET n == Len(l.effects)
             shown == n > 0 /\ l.effects[n].mounted
         IN  IF screen = "form"
               THEN IF shown THEN l
                    ELSE [l EXCEPT !.effects = Append(@, NewEffect)]
               ELSE IF shown THEN [l EXCEPT !.effects[n] = Cleanup(@)]
                    ELSE l

LaunchFollowing(records, l) ==
    /\ listeners = l
    /\ storage \in records
    /\ store = hydrate(storage)
    /\ invokes = <<>>
    /\ session = "none"
    /\ last = [op |-> "launch", from |-> "form"]
    /\ edits = 0
    /\ events = 0
    /\ launches = 0
    /\ drag = NoDrag

Launch(records) == LaunchFollowing(records, NotFollowed)

Init == Launch({NoRecord, ReturningRecord})

InitRelaunch == Launch({NoRecord, FinishedRecord})

\* The record of a run whose history lists are full: ten earlier sources
\* and ten earlier targets, "/a" being the oldest of each.
FullHistoryRecord ==
    [ sourcePaths      |-> <<>>,
      sourceHistory    |-> <<"/s9", "/s8", "/s7", "/s6", "/s5", "/s4", "/s3", "/s2", "/s1", "/a">>,
      targetPath       |-> "",
      targetHistory    |-> <<"/t9", "/t8", "/t7", "/t6", "/t5", "/t4", "/t3", "/t2", "/t1", "/a">>,
      blacklist        |-> <<"node_modules", "dist">>,
      respectGitignore |-> FALSE,
      includeSourceDir |-> TRUE,
      collisionMode    |-> "overwrite" ]

InitDrop == Launch({NoRecord, FullHistoryRecord})


(***************************************************************************)
(* Every set() of the store goes through the persist middleware, which     *)
(* writes partialize(state) to local storage.                              *)
(***************************************************************************)
Commit(s) ==
    /\ store' = s
    /\ storage' = partialize(s)
    /\ listeners' = Rendered(listeners, s.currentScreen)

Ran(op) == last' = [op |-> op, from |-> store.currentScreen]

FormEdit(s) ==
    /\ store.currentScreen = "form"
    /\ Ran("formEdit")
    /\ edits < MaxEdits
    /\ edits' = edits + 1
    /\ Commit(s)
    /\ UNCHANGED <<invokes, session, events, launches, drag>>

(***************************************************************************)
(* App.tsx, FormScreen: the handlers of the form.                          *)
(***************************************************************************)
\* paths.forEach((path) => { addSourcePath(path); addToSourceHistory(path); })
RECURSIVE AddSources(_, _)
AddSources(s, paths) ==
    IF paths = <<>> THEN s
    ELSE AddSources(addToSourceHistory(addSourcePath(s, Head(paths)), Head(paths)),
                    Tail(paths))

\* what the file dialog can return: one path, or several distinct paths
Selections ==
    { <<p>> : p \in Paths } \cup
    { <<p, q>> : <<p, q>> \in { pq \in Paths \X Paths : pq[1] # pq[2] } }

browseFiles(selected) == FormEdit(AddSources(store, selected))

browseFolder(selected) ==
    FormEdit(addToSourceHistory(addSourcePath(store, selected), selected))

browseTarget(selected) == FormEdit(setTargetPath(store, selected))

TargetInput(value) == FormEdit(setTargetPath(store, value))

SourceDropdownPick(path) ==
    /\ Includes(store.sourceHistory, path)
    /\ FormEdit(addSourcePath(store, path))

TargetDropdownPick(path) ==
    /\ Includes(store.targetHistory, path)
    /\ FormEdit(setTargetPath(store, path))

ClearSources ==
    /\ Len(store.sourcePaths) > 0
    /\ FormEdit(clearSourcePaths(store))

ChipRemove(path) ==
    /\ Len(store.sourcePaths) > 1
    /\ Includes(store.sourcePaths, path)
    /\ FormEdit(removeSourcePath(store, path))

\* value stands for input.value.trim(); a blank input adds nothing
handleAddBlacklist(value) ==
    /\ value # ""
    /\ FormEdit(addBlacklistItem(store, value))

BlacklistRemove(item) ==
    /\ Includes(store.blacklist, item)
    /\ FormEdit(removeBlacklistItem(store, item))

ToggleIncludeSourceDir == FormEdit(setIncludeSourceDir(store, ~store.includeSourceDir))

ToggleRespectGitignore == FormEdit(setRespectGitignore(store, ~store.respectGitignore))

CollisionPick(mode) == FormEdit(setCollisionMode(store, mode))

(***************************************************************************)
(* App.tsx, FormScreen: the four drag-and-drop listeners.  The pointer's   *)
(* y and window.innerHeight are read from each event; FormScreen's drag     *)
(* state is lost when the form is unmounted.                               *)
(*                                                                         *)
(* The thresholds are products of doubles.  0.35 is stored as              *)
(* 7/20 - (2/5) * 2^-54 and 0.55 as 11/20 + (2/5) * 2^-53, and the product  *)
(* with windowHeight is rounded to 53 bits.  For whole y and windowHeight   *)
(* the comparison differs from the one with the exact threshold only when  *)
(* the exact threshold is the whole number y itself: windowHeight * 0.35   *)
(* is then y or just below it, so y < windowHeight * 0.35 stays false;     *)
(* windowHeight * 0.55 is y or the next double above it, the latter when   *)
(* the excess (2/5) * windowHeight * 2^-53 is more than half the spacing   *)
(* 2^(e-52) of the doubles from y = 11 * windowHeight / 20 on              *)
(* (2^e <= y < 2^(e+1)), which is 8 * y > 11 * 2^e.                        *)
(***************************************************************************)
RECURSIVE Pow2Floor(_)
Pow2Floor(n) == IF n < 2 THEN 1 ELSE 2 * Pow2Floor(n \div 2)

\* y < windowHeight * 0.35
Below035(y, windowHeight) == 20 * y < 7 * windowHeight

\* y < windowHeight * 0.55
Below055(y, windowHeight) ==
    \/ 20 * y < 11 * windowHeight
    \/ 20 * y = 11 * windowHeight /\ 8 * y > 11 * Pow2Floor(y)

ZoneOnEnter(y, windowHeight) ==
    IF Below035(y, windowHeight) THEN "source"
    ELSE IF Below055(y, windowHeight) THEN "target"
    ELSE "source"

ZoneOnOver(y, windowHeight) ==
    IF Below035(y, windowHeight) THEN "source"
    ELSE IF Below055(y, windowHeight) THEN "target"
    ELSE "source"

\* A faulty drop: the target zone takes the last dropped path.
onDragDropLastPath(s, y, windowHeight, paths) ==
    IF Below035(y, windowHeight) THEN AddSources(s, paths)
    ELSE IF Below055(y, windowHeight)
      THEN IF Len(paths) > 0
             THEN addToTargetHistory(setTargetPath(s, paths[Len(paths)]), paths[Len(paths)])
             ELSE s
    ELSE AddSources(s, paths)

onDragDrop(s, y, windowHeight, paths) ==
    IF Below035(y, windowHeight) THEN AddSources(s, paths)
    ELSE IF Below055(y, windowHeight)
      THEN IF Len(paths) > 0
             THEN addToTargetHistory(setTargetPath(s, paths[1]), paths[1])
             ELSE s
    ELSE AddSources(s, paths)

DragOnly(op) ==
    /\ store.currentScreen = "form"
    /\ Ran(op)
    /\ UNCHANGED <<store, storage, invokes, session, edits, events, launches, listeners>>

DragEnter(y, windowHeight) ==
    /\ y \in 0..windowHeight
    /\ DragOnly("drag-enter")
    /\ drag' = [isDragging |-> TRUE, dropZone |-> ZoneOnEnter(y, windowHeight)]

DragOver(y, windowHeight) ==
    /\ y \in 0..windowHeight
    /\ DragOnly("drag-over")
    /\ drag' = [drag EXCEPT !.dropZone = ZoneOnOver(y, windowHeight)]

DragLeave ==
    /\ DragOnly("drag-leave")
    /\ drag' = NoDrag

DragDrop(y, windowHeight, paths) ==
    /\ y \in 0..windowHeight
    /\ store.currentScreen = "form"
    /\ Ran("drag-drop")
    /\ edits < MaxEdits
    /\ edits' = edits + 1
    /\ Commit(onDragDrop(store, y, windowHeight, paths))
    /\ drag' = NoDrag
    /\ UNCHANGED <<invokes, session, events, launches>>

(***************************************************************************)
(* App.tsx, startBackup: the guard, and the synchronous part up to the     *)
(* call of invoke("backup_directory", ...).  The await ends in one of the  *)
(* two actions below.                                                      *)
(***************************************************************************)
\* A faulty guard: the target is not checked.
SubmitValidSourcesOnly(s) == ~(Len(s.sourcePaths) = 0)

SubmitValid(s) == ~(Len(s.sourcePaths) = 0 \/ s.targetPath = "")

SessionConfig(s) ==
    [ sourcePaths      |-> s.sourcePaths,
      targetPath       |-> s.targetPath,
      blacklist        |-> s.blacklist,
      respectGitignore |-> s.respectGitignore,
      includeSourceDir |-> s.includeSourceDir,
      collisionMode    |-> s.collisionMode ]

\* A faulty submission: the target is not recorded in the history.
startBackupSyncUnrecorded(s) ==
    setCurrentFile(
      setTotalCount(
        setSkippedCount(
          setCopiedCount(
            setProgress(setScreen(s, "progress"), 0), 0), 0), 0), "")

startBackupSync(s) ==
    setCurrentFile(
      setTotalCount(
        setSkippedCount(
          setCopiedCount(
            setProgress(
              setScreen(addToTargetHistory(s, s.targetPath), "progress"),
              0), 0), 0), 0), "")

\* A faulty submission: a later session reuses the record of the one before,
\* whose configuration is overwritten.
startBackupReusing ==
    /\ store.currentScreen = "form"
    /\ Ran("startBackup")
    /\ IF SubmitValid(store)
         THEN /\ Len(invokes) < MaxSessions
              /\ Commit(startBackupSync(store))
              /\ invokes' =
                    IF invokes = <<>>
                      THEN <<[config |-> SessionConfig(store), status |-> "pending"]>>
                      ELSE [invokes EXCEPT ![Len(invokes)] =
                              [config |-> SessionConfig(store), status |-> "pending"]]
              /\ session' = "open"
              /\ drag' = NoDrag
              /\ UNCHANGED <<edits, events, launches>>
         ELSE UNCHANGED <<store, storage, invokes, session, edits, events, launches, drag,
                         listeners>>

startBackup ==
    /\ store.currentScreen = "form"
    /\ Ran("startBackup")
    /\ IF SubmitValid(store)
         THEN /\ Len(invokes) < MaxSessions
              /\ Commit(startBackupSync(store))
              /\ invokes' = Append(invokes,
                                   [config |-> SessionConfig(store), status |-> "pending"])
              /\ session' = "open"
              /\ drag' = NoDrag
              /\ UNCHANGED <<edits, events, launches>>
         ELSE UNCHANGED <<store, storage, invokes, session, edits, events, launches, drag,
                         listeners>>

\* the promise of invoke() resolves: the try block ends, nothing is written
InvokeResolve(i) ==
    /\ i \in 1..Len(invokes)
    /\ invokes[i].status = "pending"
    /\ invokes' = [invokes EXCEPT ![i].status = "settled"]
    /\ Ran("invokeResolve")
    /\ UNCHANGED <<store, storage, session, edits, events, launches, drag, listeners>>

RejectionMessage(error) == "Error: " \o error

startBackupCatch(s, error) == setSuccess(setMessage(s, RejectionMessage(error)), FALSE)

\* the promise of invoke() rejects: the catch block runs
InvokeReject(i, error) ==
    /\ i \in 1..Len(invokes)
    /\ invokes[i].status = "pending"
    /\ invokes' = [invokes EXCEPT ![i].status = "settled"]
    /\ Ran("invokeReject")
    /\ Commit(startBackupCatch(store, error))
    /\ session' = IF i = Len(invokes) /\ session = "open" THEN "written" ELSE session
    /\ UNCHANGED <<edits, events, launches, drag>>

(***************************************************************************)
(* App.tsx, App: the three listeners of the event bridge.                  *)
(***************************************************************************)
(***************************************************************************)
(* App.tsx:608-610 computes the percentage in IEEE 754 doubles:            *)
(* Math.round(((copied + skipped) / total) * 100).  A positive double is   *)
(* modelled as its 53 significant bits, first bit first, and the exponent  *)
(* of its first bit: [bits |-> b, exp |-> e] is the sum of                 *)
(* b[i] * 2^(e - i + 1).  The counts are whole numbers below 2^31, which   *)
(* doubles hold exactly.                                                   *)
(***************************************************************************)
Precision == 53

\* the exponent e of n / t: 2^e <= n / t < 2^(e + 1)
RECURSIVE LeadExp(_, _)
LeadExp(n, t) ==
    IF n >= t THEN (IF n >= 2 * t THEN 1 + LeadExp(n, 2 * t) ELSE 0)
    ELSE LeadExp(2 * n, t) - 1

RECURSIVE Pow2(_)
Pow2(k) == IF k = 0 THEN 1 ELSE 2 * Pow2(k - 1)

\* long division: the first k bits of r / d, where d <= r < 2 d at the start
RECURSIVE QuotientBits(_, _, _)
QuotientBits(r, d, k) ==
    IF k = 0 THEN <<>>
    ELSE IF r >= d THEN <<1>> \o QuotientBits(2 * (r - d), d, k - 1)
    ELSE <<0>> \o QuotientBits(2 * r, d, k - 1)

\* what long division leaves after k bits: twice the remainder
RECURSIVE QuotientRest(_, _, _)
QuotientRest(r, d, k) ==
    IF k = 0 THEN r
    ELSE IF r >= d THEN QuotientRest(2 * (r - d), d, k - 1)
    ELSE QuotientRest(2 * r, d, k - 1)

\* bits + 1 (one bit longer when every bit was 1)
RECURSIVE PlusOne(_)
PlusOne(bits) ==
    IF bits = <<>> THEN <<1>>
    ELSE IF bits[Len(bits)] = 0 THEN [bits EXCEPT ![Len(bits)] = 1]
    ELSE LET up == PlusOne(SubSeq(bits, 1, Len(bits) - 1))
         IN  up \o <<0>>

\* round to nearest, ties to even: bits are the first Precision bits of a value
\* whose first bit has exponent e; up tells whether the value is rounded up
Rounded(bits, e, up) ==
    IF ~up THEN [bits |-> bits, exp |-> e]
    ELSE LET b == PlusOne(bits)
         IN  IF Len(b) > Precision
               THEN [bits |-> SubSeq(b, 1, Precision), exp |-> e + 1]
               ELSE [bits |-> b, exp |-> e]

\* n / t for whole n > 0 and t > 0
Divide(n, t) ==
    LET e    == LeadExp(n, t)
        r    == IF e < 0 THEN n * Pow2(-e) ELSE n
        d    == IF e < 0 THEN t ELSE t * Pow2(e)
        bits == QuotientBits(r, d, Precision)
        rest == QuotientRest(r, d, Precision)
    IN  Rounded(bits, e, rest > d \/ (rest = d /\ bits[Precision] = 1))

\* bits * m for a small whole m: the product's bits, last bit first, from the
\* reversed bits of the factor
RECURSIVE TimesSmallRev(_, _, _)
TimesSmallRev(rev, m, carry) ==
    IF rev = <<>>
      THEN IF carry = 0 THEN <<>>
           ELSE <<carry % 2>> \o TimesSmallRev(rev, m, carry \div 2)
      ELSE LET v == m * Head(rev) + carry
           IN  <<v % 2>> \o TimesSmallRev(Tail(rev), m, v \div 2)

Reverse(seq) == [i \in 1..Len(seq) |-> seq[Len(seq) + 1 - i]]

\* x * m for a double x > 0 and a small whole m > 0
Times(x, m) ==
    LET prod  == Reverse(TimesSmallRev(Reverse(x.bits), m, 0))
        e     == x.exp + (Len(prod) - Precision)
        kept  == SubSeq(prod, 1, Precision)
        guard == Len(prod) > Precision /\ prod[Precision + 1] = 1
        rest  == \E i \in (Precision + 2)..Len(prod) : prod[i] = 1
    IN  Rounded(kept, e, guard /\ (rest \/ kept[Precision] = 1))

RECURSIVE BitsValue(_)
BitsValue(bits) ==
    IF bits = <<>> THEN 0
    ELSE 2 * BitsValue(SubSeq(bits, 1, Len(bits) - 1)) + bits[Len(bits)]

\* Math.round(x) for a double 0 < x < 2^31: the whole part, plus one when the
\* fraction is a half or more
MathRound(x) ==
    IF x.exp < -1 THEN 0
    ELSE BitsValue(SubSeq(x.bits, 1, x.exp + 1)) + x.bits[x.exp + 2]

\* total_count > 0 ? Math.round(((copied_count + skipped_count) / total_count) * 100) : 0
Percent(copied, skipped, total) ==
    IF total > 0
      THEN IF copied + skipped = 0 THEN 0
           ELSE MathRound(Times(Divide(copied + skipped, total), 100))
      ELSE 0

\* the percentage of every notification that can be delivered, computed once
Percents ==
    [p \in ProgressPayloads \cup ProgressSamples \cup OvercountPayloads |->
        Percent(p.copied_count, p.skipped_count, p.total_count)]

onBackupProgress(s, p) ==
    setProgress(
      setTotalCount(
        setSkippedCount(
          setCopiedCount(
            setCurrentFile(s, p.current_file),
            p.copied_count),
          p.skipped_count),
        p.total_count),
      Percents[p])

\* A faulty listener: the screen moves only on a successful completion.
onBackupCompleteIfSuccess(s, p) ==
    LET u == setProgress(
               setSkippedCount(
                 setSuccess(setMessage(s, p.message), p.success),
                 p.skipped_count),
               100)
    IN  IF p.success THEN setScreen(u, "complete") ELSE u

\* A faulty listener: the completion's copied_count is stored as well.
onBackupCompleteWithCopied(s, p) ==
    setScreen(
      setProgress(
        setSkippedCount(
          setCopiedCount(
            setSuccess(setMessage(s, p.message), p.success),
            p.copied_count),
          p.skipped_count),
        100),
      "complete")

onBackupComplete(s, p) ==
    setScreen(
      setProgress(
        setSkippedCount(
          setSuccess(
            setMessage(s, p.message),
            p.success),
          p.skipped_count),
        100),
      "complete")

ErrorText(p) == IF p.file # NoFile /\ p.file # "" THEN p.file \o ": " \o p.message ELSE p.message

\* A faulty listener: the error is also recorded as the outcome's message.
onBackupErrorAsOutcome(s, p) == setMessage(addError(s, ErrorText(p)), p.message)

onBackupError(s, p) == addError(s, ErrorText(p))

Notify(op, s) ==
    /\ events < MaxEvents
    /\ Ran(op)
    /\ events' = events + 1
    /\ Commit(s)
    /\ drag' = IF s.currentScreen = "form" THEN drag ELSE NoDrag
    /\ UNCHANGED <<invokes, edits, launches>>

BackupProgress(p) ==
    /\ Notify("backup-progress", onBackupProgress(store, p))
    /\ UNCHANGED session

BackupComplete(p) ==
    /\ Notify("backup-complete", onBackupComplete(store, p))
    /\ session' = IF session = "open" THEN "written" ELSE session

BackupError(p) ==
    /\ Notify("backup-error", onBackupError(store, p))
    /\ UNCHANGED session

(***************************************************************************)
(* App.tsx, CompleteScreen: "Start New Backup".                            *)
(***************************************************************************)
handleReset ==
    /\ store.currentScreen = "complete"
    /\ Commit(reset(store))
    /\ Ran("reset")
    /\ session' = "none"
    /\ UNCHANGED <<invokes, edits, events, launches, drag>>

(***************************************************************************)
(* The application is closed and launched again: the page's promises are   *)
(* gone and the store is created from initialState and the stored record.  *)
(***************************************************************************)
Relaunch ==
    /\ launches < MaxLaunches
    /\ launches' = launches + 1
    /\ store' = hydrate(storage)
    /\ last' = [op |-> "launch", from |-> "form"]
    /\ invokes' = <<>>
    /\ session' = "none"
    /\ drag' = NoDrag
    /\ listeners' = IF listeners.followed THEN FirstMount ELSE NotFollowed
    /\ UNCHANGED <<storage, edits, events>>

Next ==
    \/ \E sel \in Selections : browseFiles(sel)
    \/ \E p \in Paths : browseFolder(p)
    \/ \E p \in Paths : browseTarget(p)
    \/ \E v \in TargetInputs : TargetInput(v)
    \/ \E p \in Paths : SourceDropdownPick(p)
    \/ \E p \in Paths : TargetDropdownPick(p)
    \/ ClearSources
    \/ \E p \in Paths : ChipRemove(p)
    \/ \E v \in Patterns \cup {""} : handleAddBlacklist(v)
    \/ \E v \in Patterns \cup {"node_modules"} : BlacklistRemove(v)
    \/ ToggleIncludeSourceDir
    \/ ToggleRespectGitignore
    \/ \E m \in CollisionModes : CollisionPick(m)
    \/ startBackup
    \/ \E i \in 1..MaxSessions : InvokeResolve(i)
    \/ \E i \in 1..MaxSessions, e \in RejectErrors : InvokeReject(i, e)
    \/ \E p \in ProgressPayloads : BackupProgress(p)
    \/ \E p \in CompletePayloads : BackupComplete(p)
    \/ \E p \in ErrorPayloads : BackupError(p)
    \/ handleReset

Spec == Init /\ [][Next]_vars

\* The running program, and relaunches of it.
NextRelaunch == Next \/ Relaunch

SpecRelaunch == InitRelaunch /\ [][NextRelaunch]_vars

\* A session with progress notifications of every sample.
NextProgress ==
    \/ startBackup
    \/ \E p \in ProgressSamples : BackupProgress(p)
    \/ \E p \in CompletePayloads : BackupComplete(p)
    \/ handleReset

SpecProgress == Init /\ [][NextProgress]_vars

\* A session whose engine also reports more files done than the total.
NextOvercount ==
    \/ NextProgress
    \/ \E p \in OvercountPayloads : BackupProgress(p)

SpecOvercount == Init /\ [][NextOvercount]_vars

\* The list operations of the store, called in any order with any path or
\* pattern (edits counts the calls here, last.arg is the argument of the call).
Call(op, arg, s) ==
    /\ edits < MaxCalls
    /\ edits' = edits + 1
    /\ last' = [op |-> op, from |-> store.currentScreen, arg |-> arg]
    /\ Commit(s)
    /\ UNCHANGED <<invokes, session, events, launches, drag>>

NextStore ==
    \/ \E p \in Paths : Call("addSourcePath", p, addSourcePath(store, p))
    \/ \E p \in Paths : Call("removeSourcePath", p, removeSourcePath(store, p))
    \/ Call("clearSourcePaths", "", clearSourcePaths(store))
    \/ \E p \in Paths : Call("addToSourceHistory", p, addToSourceHistory(store, p))
    \/ \E p \in Paths : Call("addToTargetHistory", p, addToTargetHistory(store, p))
    \/ \E v \in Patterns : Call("addBlacklistItem", v, addBlacklistItem(store, v))
    \/ \E v \in Patterns : Call("removeBlacklistItem", v, removeBlacklistItem(store, v))

InitStore == Launch({NoRecord, ReturningRecord, FullHistoryRecord})

SpecStore == InitStore /\ [][NextStore]_vars

\* Where files are dropped: at the top and the bottom of the window, in the
\* middle of each zone, and on and next to the two thresholds.
ZoneProbes(h) ==
    { 0, h \div 5, (7 * h) \div 20 - 1, (7 * h) \div 20, (9 * h) \div 20,
      (11 * h) \div 20 - 1, (11 * h) \div 20, (11 * h) \div 20 + 1, h }

\* Files dragged over the form, at every height of the pointer, and dropped on it.
NextDrag ==
    \/ \E h \in Heights : \E y \in 0..h : DragEnter(y, h)
    \/ \E h \in Heights : \E y \in 0..h : DragOver(y, h)
    \/ DragLeave
    \/ \E h \in Heights : \E y \in ZoneProbes(h), sel \in Selections : DragDrop(y, h, sel)

SpecDrag == InitDrop /\ [][NextDrag]_vars

\* The running program with full history lists, and files dropped in the
\* middle of the source zone (y = 0.2 H) or of the target zone (y = 0.45 H).
DropYs(h) == { h \div 5, (9 * h) \div 20 }

NextDrop ==
    \/ Next
    \/ \E h \in Heights, sel \in Selections : \E y \in DropYs(h) : DragDrop(y, h, sel)

SpecDrop == InitDrop /\ [][NextDrop]_vars

\* The same steps, from a form that an earlier run left filled in.
SpecSubmit == Init /\ [][NextDrop]_vars

\* unlistenX = await listen(...): the next registration of an effect
\* completes and its unlisten function is assigned.  The async function
\* goes on after the cleanup of its effect has run.
ListenRegistered(i) ==
    /\ listeners.followed
    /\ i \in 1..Len(listeners.effects)
    /\ listeners.effects[i].registered < DragListeners
    /\ listeners' = [listeners EXCEPT !.effects[i].registered = @ + 1]
    /\ Ran("listen")
    /\ UNCHANGED <<store, storage, invokes, session, edits, events, launches, drag>>

\* Submissions, completions and resets with the drag listeners of every
\* mount of FormScreen followed.
InitListeners == LaunchFollowing({NoRecord, ReturningRecord}, FirstMount)

NextListeners ==
    \/ startBackup
    \/ \E p \in CompletePayloads : BackupComplete(p)
    \/ handleReset
    \/ \E i \in 1..Len(listeners.effects) : ListenRegistered(i)

SpecListeners == InitListeners /\ [][NextListeners]_vars


(***************************************************************************)
(* Properties.                                                             *)
(***************************************************************************)
Notifications == {"backup-progress", "backup-complete", "backup-error"}

LegalEdges == { <<"form", "progress">>, <<"progress", "complete">>, <<"complete", "form">> }

\* C1: in every step, currentScreen either stays or moves along one of the edges
\* form->progress, progress->complete, complete->form (never form->complete).
C1_ScreenEdgesOnly ==
    [][ store'.currentScreen # store.currentScreen
          => <<store.currentScreen, store'.currentScreen>> \in LegalEdges ]_vars

\* C2: when the pending invocation of the running session is rejected, the screen
\* becomes complete with success = FALSE.
C2_RejectionEndsOnComplete ==
    [][ (last'.op = "invokeReject" /\ store.currentScreen = "progress")
          => (store'.currentScreen = "complete" /\ store'.success = FALSE) ]_vars

\* C3: a notification handled while the screen is form changes no store field.
C3_NotificationOnFormIgnored ==
    [][ (last'.op \in Notifications /\ store.currentScreen = "form")
          => store' = store ]_vars

\* C4: a notification handled while the screen is complete changes no store field.
C4_NotificationOnCompleteIgnored ==
    [][ (last'.op \in Notifications /\ store.currentScreen = "complete")
          => store' = store ]_vars

\* C5: a backup-complete notification handled on the progress screen moves the
\* screen to complete and leaves progress = 100 and the notification's message
\* and success, whatever the success value.
C5_CompletionOnProgress ==
    [][ \A p \in CompletePayloads :
          (store.currentScreen = "progress" /\ BackupComplete(p))
            => /\ store'.currentScreen = "complete"
               /\ store'.progress = 100
               /\ store'.message = p.message
               /\ store'.success = p.success ]_vars

\* the scenario of the specification: submit, progress 1 of 4, complete "Done"
C5_Witness ==
    /\ last = [op |-> "backup-complete", from |-> "progress"]
    /\ store.currentScreen = "complete"
    /\ store.progress = 100
    /\ store.message = "Done"
    /\ store.success
    /\ store.copiedCount = 1
    /\ store.totalCount = 4
    /\ Len(invokes) = 1

\* C6: startBackup moves form to progress (and invokes backup_directory once)
\* exactly when sourcePaths and targetPath are both non-empty; otherwise it
\* changes no store field, writes nothing and invokes nothing.
C6_StartBackupGuard ==
    [][ /\ last'.op = "startBackup"
          => IF Len(store.sourcePaths) > 0 /\ store.targetPath # ""
               THEN /\ store.currentScreen = "form"
                    /\ store'.currentScreen = "progress"
                    /\ Len(invokes') = Len(invokes) + 1
               ELSE /\ store' = store
                    /\ storage' = storage
                    /\ invokes' = invokes
        /\ (store.currentScreen = "form" /\ store'.currentScreen = "progress")
          => /\ last'.op = "startBackup"
             /\ Len(store.sourcePaths) > 0
             /\ store.targetPath # "" ]_vars

\* startBackup has run on a form with sources but no target, and nothing moved
C6_Witness ==
    /\ last = [op |-> "startBackup", from |-> "form"]
    /\ store.currentScreen = "form"
    /\ Len(store.sourcePaths) > 0
    /\ store.targetPath = ""
    /\ invokes = <<>>

\* C7: once the outcome of the running session has been written (by a
\* backup-complete notification or by the rejection of its invocation), a later
\* backup-complete notification or rejection of that invocation leaves success
\* and message as they are.
C7_OutcomeWrittenOnce ==
    [][ ( /\ session = "written"
          /\ \/ last'.op = "backup-complete"
             \/ /\ last'.op = "invokeReject"
                /\ invokes[Len(invokes)].status = "pending"
                /\ invokes'[Len(invokes)].status = "settled" )
          => (store'.success = store.success /\ store'.message = store.message) ]_vars

\* C8: right after a valid submission has entered progress, the error log and
\* the progress state are empty/zero.
C8_FreshSessionState ==
    (last.op = "startBackup" /\ store.currentScreen = "progress")
      => /\ store.errors = <<>>
         /\ store.progress = 0
         /\ store.copiedCount = 0
         /\ store.skippedCount = 0
         /\ store.totalCount = 0
         /\ store.currentFile = ""

\* C9: reset() runs on complete, returns to form with every session-scoped field
\* at its zero value, and keeps the histories, the blacklist and the options.
C9_ResetKeepsPreferences ==
    [][ last'.op = "reset"
          => /\ store.currentScreen = "complete"
             /\ store'.currentScreen = "form"
             /\ store'.sourcePaths = <<>>
             /\ store'.targetPath = ""
             /\ store'.progress = 0
             /\ store'.copiedCount = 0
             /\ store'.skippedCount = 0
             /\ store'.totalCount = 0
             /\ store'.currentFile = ""
             /\ store'.success = FALSE
             /\ store'.message = ""
             /\ store'.errors = <<>>
             /\ store'.sourceHistory = store.sourceHistory
             /\ store'.targetHistory = store.targetHistory
             /\ store'.blacklist = store.blacklist
             /\ store'.respectGitignore = store.respectGitignore
             /\ store'.includeSourceDir = store.includeSourceDir
             /\ store'.collisionMode = store.collisionMode ]_vars

\* reset has run after a session that received notifications, with preferences
\* that differ from the defaults
C9_Witness ==
    /\ last = [op |-> "reset", from |-> "complete"]
    /\ store.currentScreen = "form"
    /\ invokes # <<>>
    /\ events > 0
    /\ store.sourceHistory # <<>>
    /\ store.targetHistory # <<>>
    /\ store.blacklist # initialState.blacklist
    /\ store.respectGitignore
    /\ ~store.includeSourceDir
    /\ store.collisionMode = "skip"

PersistedFields ==
    { "sourcePaths", "sourceHistory", "targetPath", "targetHistory",
      "blacklist", "respectGitignore", "includeSourceDir", "collisionMode" }

DurableFields ==
    { "sourceHistory", "targetHistory", "blacklist",
      "respectGitignore", "includeSourceDir", "collisionMode" }

SessionZero(s) ==
    /\ s.currentScreen = "form"
    /\ s.progress = 0
    /\ s.copiedCount = 0
    /\ s.skippedCount = 0
    /\ s.totalCount = 0
    /\ s.currentFile = ""
    /\ s.success = FALSE
    /\ s.message = ""
    /\ s.errors = <<>>

C11_RejectionMessageVerbatim ==
    [][ \A i \in 1..MaxSessions, e \in RejectErrors :
          InvokeReject(i, e) => store'.message = e ]_vars

NoDuplicates(list) ==
    \A i, j \in 1..Len(list) : i # j => list[i] # list[j]

\* C12: whatever was added, dropped, picked, submitted or reset, sourceHistory
\* and targetHistory each hold at most 10 entries and no path twice.
C12_HistoryBounded ==
    /\ Len(store.sourceHistory) <= 10
    /\ NoDuplicates(store.sourceHistory)
    /\ Len(store.targetHistory) <= 10
    /\ NoDuplicates(store.targetHistory)

\* both lists were full, a new source and a new target were recorded by a
\* submission, and the session was reset: both are still ten long
C12_Witness ==
    /\ last.op = "reset"
    /\ Len(store.sourceHistory) = 10
    /\ store.sourceHistory[1] = "/b"
    /\ ~Includes(store.sourceHistory, "/a")
    /\ Len(store.targetHistory) = 10
    /\ store.targetHistory[1] = "/b"
    /\ ~Includes(store.targetHistory, "/a")

Index(list, x) == CHOOSE i \in 1..Len(list) : list[i] = x

\* the elements that are in both lists are in the same relative order in both
SameOrder(old, new) ==
    \A i, j \in 1..Len(old) :
        (i < j /\ Includes(new, old[i]) /\ Includes(new, old[j]))
          => Index(new, old[i]) < Index(new, old[j])

\* new is old with x put in: left alone if x was there, else x appended at the end
PutIn(old, x, new) ==
    IF Includes(old, x) THEN new = old ELSE new = Append(old, x)

\* new is old with x taken out, the others keeping their order
TakenOut(old, x, new) ==
    /\ ~Includes(new, x)
    /\ \A i \in 1..Len(old) : old[i] # x => Includes(new, old[i])
    /\ \A i \in 1..Len(new) : Includes(old, new[i])
    /\ NoDuplicates(new)
    /\ SameOrder(old, new)

C13_NoDuplicates ==
    /\ NoDuplicates(store.sourcePaths)
    /\ NoDuplicates(store.blacklist)

C13_Step ==
    /\ last'.op = "addSourcePath"
         => PutIn(store.sourcePaths, last'.arg, store'.sourcePaths)
    /\ last'.op = "removeSourcePath"
         => TakenOut(store.sourcePaths, last'.arg, store'.sourcePaths)
    /\ last'.op = "clearSourcePaths" => store'.sourcePaths = <<>>
    /\ last'.op = "addBlacklistItem"
         => PutIn(store.blacklist, last'.arg, store'.blacklist)
    /\ last'.op = "removeBlacklistItem"
         => TakenOut(store.blacklist, last'.arg, store'.blacklist)

\* C13: under any sequence of addSourcePath, removeSourcePath, clearSourcePaths,
\* addBlacklistItem and removeBlacklistItem calls, sourcePaths and blacklist hold
\* no element twice and keep first-insertion order: an add of a present element
\* changes nothing, a new element goes to the end, a removal keeps the others'
\* order.
C13_ListsInInsertionOrder == []C13_NoDuplicates /\ [][C13_Step]_vars

\* "/a" was added while it was already there, before "/b": it stayed first
C13_Witness ==
    /\ last.op = "addSourcePath"
    /\ last.arg = "/a"
    /\ store.sourcePaths = <<"/a", "/b">>
    /\ Len(store.blacklist) = 3

\* new is old with path recorded: old itself if path was there (at its old
\* place), else path first, then old's entries in order, at most 10 in all
Recorded(old, path, new) ==
    IF \E i \in 1..Len(old) : old[i] = path
      THEN new = old
      ELSE /\ Len(new) = (IF Len(old) < 10 THEN Len(old) + 1 ELSE 10)
           /\ new[1] = path
           /\ \A i \in 2..Len(new) : new[i] = old[i - 1]

\* C14: addToSourceHistory and addToTargetHistory leave the list unchanged when
\* the path is already in it (no promotion to the front); otherwise they put the
\* path first and keep the first 10 entries, which drops the last entry of a
\* full list.
C14_AddToHistory ==
    [][ /\ last'.op = "addToSourceHistory"
             => Recorded(store.sourceHistory, last'.arg, store'.sourceHistory)
        /\ last'.op = "addToTargetHistory"
             => Recorded(store.targetHistory, last'.arg, store'.targetHistory) ]_vars

\* "/b" was recorded in both full lists, which dropped their oldest entry "/a",
\* and a third call, with the path "/b" that was already there, changed nothing
C14_Witness ==
    /\ last.op \in {"addToSourceHistory", "addToTargetHistory"}
    /\ store.sourceHistory =
         <<"/b", "/s9", "/s8", "/s7", "/s6", "/s5", "/s4", "/s3", "/s2", "/s1">>
    /\ store.targetHistory =
         <<"/b", "/t9", "/t8", "/t7", "/t6", "/t5", "/t4", "/t3", "/t2", "/t1">>
    /\ edits = 3

\* the pointer is inside the source zone, or inside the target zone (the
\* boundary y = 0.55 H is the subject of C16)
InSourceZone(y, h) == 20 * y < 7 * h \/ 20 * y > 11 * h
InTargetZone(y, h) == 7 * h <= 20 * y /\ 20 * y < 11 * h

PathPairs == { sel \in Selections : Len(sel) = 2 }

\* list with x appended unless it is there
Selected(list, x) == IF Includes(list, x) THEN list ELSE Append(list, x)

\* list with x recorded by addToHistory
History(list, x) ==
    IF Includes(list, x) THEN list
    ELSE IF Len(list) < 10 THEN <<x>> \o list ELSE <<x>> \o SubSeq(list, 1, 9)

DropOnTarget(sel) ==
    /\ store'.targetPath = sel[1]
    /\ store'.targetHistory = History(store.targetHistory, sel[1])
    /\ store'.sourcePaths = store.sourcePaths
    /\ store'.sourceHistory = store.sourceHistory

\* C15 as stated: a drop of [p1, p2] in the source zone appends both to
\* sourcePaths and adds both to sourceHistory in drop order (p1 before p2 when
\* both are new); a drop of [p1, p2] in the target zone sets targetPath to p1,
\* adds p1 to targetHistory, discards p2 and leaves sourcePaths unchanged.
C15_DropKeepsDropOrder ==
    [][ \A h \in Heights : \A y \in ZoneProbes(h) : \A sel \in PathPairs :
          DragDrop(y, h, sel) =>
            /\ InSourceZone(y, h) =>
                 /\ store'.sourcePaths =
                      Selected(Selected(store.sourcePaths, sel[1]), sel[2])
                 /\ Includes(store'.sourceHistory, sel[1])
                 /\ Includes(store'.sourceHistory, sel[2])
                 /\ (~Includes(store.sourceHistory, sel[1]) /\ ~Includes(store.sourceHistory, sel[2]))
                      => Index(store'.sourceHistory, sel[1]) < Index(store'.sourceHistory, sel[2])
            /\ InTargetZone(y, h) => DropOnTarget(sel) ]_vars

\* C15 as amended: a drop of [p1, p2] in the source zone appends both to
\* sourcePaths in drop order and records p1, then p2, in sourceHistory, each
\* put first when new, so that two new paths end up in the reverse of their drop
\* order (p2 before p1); a drop in the target zone is as stated.
C15_DropRecordsEachInTurn ==
    [][ \A h \in Heights : \A y \in ZoneProbes(h) : \A sel \in PathPairs :
          DragDrop(y, h, sel) =>
            /\ InSourceZone(y, h) =>
                 /\ store'.sourcePaths =
                      Selected(Selected(store.sourcePaths, sel[1]), sel[2])
                 /\ store'.sourceHistory =
                      History(History(store.sourceHistory, sel[1]), sel[2])
                 /\ (~Includes(store.sourceHistory, sel[1]) /\ ~Includes(store.sourceHistory, sel[2]))
                      => (store'.sourceHistory[1] = sel[2] /\ store'.sourceHistory[2] = sel[1])
                 /\ store'.targetPath = store.targetPath
                 /\ store'.targetHistory = store.targetHistory
            /\ InTargetZone(y, h) => DropOnTarget(sel) ]_vars

\* ["/a", "/b"] was dropped on the source zone of an empty form and ["/b", "/a"]
\* on its target zone
C15_Witness ==
    /\ last.op = "drag-drop"
    /\ edits = 2
    /\ store.sourcePaths = <<"/a", "/b">>
    /\ store.sourceHistory = <<"/b", "/a">>
    /\ store.targetPath = "/b"
    /\ store.targetHistory = <<"/b">>

\* the zone of C16: source above 0.35 H, target from 0.35 H up to but not
\* including 0.55 H, source from 0.55 H on
StatedZone(y, h) ==
    IF 20 * y < 7 * h THEN "source"
    ELSE IF 20 * y < 11 * h THEN "target"
    ELSE "source"

\* C16: for every y in 0..H the drag-enter, drag-over and drop handlers all
\* classify (y, H) as the stated zone: source for y < 0.35 H, target for
\* 0.35 H <= y < 0.55 H, source for y >= 0.55 H.
C16_ZoneAsStated ==
    [][ \A h \in Heights : \A y \in 0..h :
          /\ DragEnter(y, h) => drag'.dropZone = StatedZone(y, h)
          /\ DragOver(y, h) => drag'.dropZone = StatedZone(y, h)
          /\ \A sel \in Selections :
               (y \in ZoneProbes(h) /\ DragDrop(y, h, sel)) =>
                 IF StatedZone(y, h) = "source"
                   THEN /\ \A i \in 1..Len(sel) : Includes(store'.sourcePaths, sel[i])
                        /\ store'.targetPath = store.targetPath
                   ELSE /\ store'.targetPath = sel[1]
                        /\ store'.sourcePaths = store.sourcePaths ]_vars

\* round(100 * (copied + skipped) / total) in exact arithmetic, a half rounded
\* up as Math.round does; 0 when total is 0
RoundedPercent(copied, skipped, total) ==
    IF total > 0 THEN (200 * (copied + skipped) + total) \div (2 * total) ELSE 0

\* C17: after a backup-progress notification is handled, currentFile,
\* copiedCount, skippedCount and totalCount are the notification's, and progress
\* is round(100 * (copied + skipped) / total), or 0 when total is 0, whatever
\* the values were before.
C17_ProgressFromPayload ==
    [][ \A p \in ProgressSamples :
          BackupProgress(p)
            => /\ store'.currentFile = p.current_file
               /\ store'.copiedCount = p.copied_count
               /\ store'.skippedCount = p.skipped_count
               /\ store'.totalCount = p.total_count
               /\ store'.progress =
                    RoundedPercent(p.copied_count, p.skipped_count, p.total_count) ]_vars

\* new is old with exactly one entry put at the end
OneAppended(old, new) ==
    /\ Len(new) = Len(old) + 1
    /\ SubSeq(new, 1, Len(old)) = old

\* C18: a backup-error notification handled on the progress screen puts exactly
\* one entry at the end of errors and changes no other field of the store: the
\* screen stays progress, the counters, success and message stay as they were.
C18_ErrorAppendsOnly ==
    [][ \A p \in ErrorPayloads :
          (store.currentScreen = "progress" /\ BackupError(p))
            => /\ OneAppended(store.errors, store'.errors)
               /\ \A k \in DOMAIN store \ {"errors"} : store'[k] = store[k]
               /\ store'.currentScreen = "progress" ]_vars

\* an error arrived after a progress notification of the running session: the
\* counters of that notification are still there
C18_Witness ==
    /\ last = [op |-> "backup-error", from |-> "progress"]
    /\ store.currentScreen = "progress"
    /\ store.errors = <<"/a/x.txt: denied">>
    /\ store.copiedCount = 1
    /\ store.totalCount = 4
    /\ store.progress = 25
    /\ session = "open"

\* C19: in every step errors is unchanged, or gets one entry at its end, or
\* becomes empty because reset() ran; a backup-complete notification leaves the
\* errors collected so far in place.
C19_ErrorLogAppendOnly ==
    [][ /\ \/ store'.errors = store.errors
           \/ OneAppended(store.errors, store'.errors)
           \/ (store'.errors = <<>> /\ last'.op = "reset")
        /\ last'.op = "backup-complete" => store'.errors = store.errors ]_vars

\* the session failed after one error was logged: the error is on the complete
\* screen
C19_Witness ==
    /\ last = [op |-> "backup-complete", from |-> "progress"]
    /\ store.currentScreen = "complete"
    /\ ~store.success
    /\ store.message = "Failed"
    /\ store.errors = <<"disk full">>
    /\ session = "written"

\* C20: in every reachable state, reset() applied twice leaves sourceHistory,
\* targetHistory, blacklist, respectGitignore, includeSourceDir and collisionMode
\* as reset() applied once does.
C20_ResetIdempotent ==
    \A k \in DurableFields : reset(reset(store))[k] = reset(store)[k]

\* reset ran on a store whose lists and options are not the initial ones; a
\* second reset would change nothing
C20_Witness ==
    /\ last.op = "reset"
    /\ Len(store.sourceHistory) = 2
    /\ store.targetHistory = <<"/b">>
    /\ store.blacklist = <<"node_modules", "*.log">>
    /\ store.collisionMode = "skip"
    /\ reset(store) = store

FormFields(s) ==
    [ sourcePaths      |-> s.sourcePaths,
      targetPath       |-> s.targetPath,
      blacklist        |-> s.blacklist,
      respectGitignore |-> s.respectGitignore,
      includeSourceDir |-> s.includeSourceDir,
      collisionMode    |-> s.collisionMode ]

\* C21: the configuration handed to backup_directory is the form's fields at
\* the moment of submission; no later step (an edit, a drop, a reset, another
\* submission) changes the configuration of a session already submitted, and
\* every valid submission adds a configuration of its own.
C21_SnapshotNeverMutated ==
    [][ /\ Len(invokes') >= Len(invokes)
        /\ \A i \in 1..Len(invokes) : invokes'[i].config = invokes[i].config
        /\ (last'.op = "startBackup" /\ SubmitValid(store))
             => /\ Len(invokes') = Len(invokes) + 1
                /\ invokes'[Len(invokes')].config = FormFields(store)
        /\ Len(invokes') > Len(invokes) => last'.op = "startBackup" ]_vars

\* a second session was submitted with other sources than the first, whose
\* configuration is still the one it was submitted with
C21_Witness ==
    /\ last.op = "startBackup"
    /\ Len(invokes) = 2
    /\ invokes[1].config.sourcePaths = <<"/a">>
    /\ invokes[2].config.sourcePaths = <<"/b", "/a">>
    /\ store.sourcePaths = <<"/b", "/a">>
    /\ store.currentScreen = "progress"

\* C23: in every reachable state progress is a whole number from 0 to 100,
\* whatever non-negative counts the backup-progress notifications carry (also
\* when copied_count + skipped_count is more than total_count).
C23_PercentInRange == store.progress \in 0..100

CompletionWrites == { "message", "success", "skippedCount", "progress", "currentScreen" }

\* C24: the backup-complete handler writes message, success, skippedCount,
\* progress and currentScreen only; every other field, copiedCount, totalCount,
\* currentFile and errors among them, keeps its value, so the copied count on
\* the complete screen is the one of the last backup-progress notification.
C24_CompletionWritesFiveFields ==
    [][ \A p \in CompletePayloads :
          BackupComplete(p)
            => /\ \A k \in DOMAIN store \ CompletionWrites : store'[k] = store[k]
               /\ store'.message = p.message
               /\ store'.success = p.success
               /\ store'.skippedCount = p.skipped_count
               /\ store'.progress = 100
               /\ store'.currentScreen = "complete" ]_vars

\* the session reported 3 copied of 10 and then failed with copied_count 1:
\* the complete screen still has 3 copied, and the completion's 2 skipped
C24_Witness ==
    /\ last = [op |-> "backup-complete", from |-> "progress"]
    /\ store.message = "Failed"
    /\ store.copiedCount = 3
    /\ store.totalCount = 10
    /\ store.currentFile = "/a/y.txt"
    /\ store.skippedCount = 2
    /\ store.progress = 100

\* C25: right after startBackup has passed its guard, targetHistory holds
\* targetPath, first if it was new (a full list losing its last entry) and where
\* it was otherwise; sourcePaths, targetPath, sourceHistory, blacklist and the
\* three options are as before the submission.
C25_SubmissionRecordsTarget ==
    [][ (last'.op = "startBackup" /\ SubmitValid(store))
          => /\ Includes(store'.targetHistory, store.targetPath)
             /\ Recorded(store.targetHistory, store.targetPath, store'.targetHistory)
             /\ store'.sourcePaths = store.sourcePaths
             /\ store'.targetPath = store.targetPath
             /\ store'.sourceHistory = store.sourceHistory
             /\ store'.blacklist = store.blacklist
             /\ store'.respectGitignore = store.respectGitignore
             /\ store'.includeSourceDir = store.includeSourceDir
             /\ store'.collisionMode = store.collisionMode ]_vars

\* a backup to the new target "/b" was submitted while the target history was
\* full: "/b" is first and the oldest target "/a" is gone
C25_Witness ==
    /\ last.op = "startBackup"
    /\ store.currentScreen = "progress"
    /\ store.targetPath = "/b"
    /\ store.targetHistory =
         <<"/b", "/t9", "/t8", "/t7", "/t6", "/t5", "/t4", "/t3", "/t2", "/t1">>
    /\ Len(invokes) = 1

Subscribed(e) == e.registered - e.released

\* C22: listener subscriptions are scoped to the component's lifetime.  No
\* effect whose cleanup has run has a drag listener subscribed, also when
\* the cleanup ran before a listen() registration had completed; at most one
\* effect has drag listeners subscribed; none is subscribed while the screen
\* is progress or complete.
C22_ListenersScoped ==
    LET effects == listeners.effects
        live == {i \in 1..Len(effects) : Subscribed(effects[i]) > 0}
    IN  /\ \A i \in 1..Len(effects) : ~effects[i].mounted => i \notin live
        /\ Cardinality(live) <= 1
        /\ store.currentScreen \in {"progress", "complete"} => live = {}


====
